---- MODULE Spec2Model ----
(***************************************************************************)
(* Model of src/verification/verify_studio_accessibility_final.py:         *)
(* verify_studio_accessibility() and the __main__ block around it.         *)
(*                                                                         *)
(* The script is one sequential process.  Its state is the position in the *)
(* script (pc), the exception that is propagating (raisedAt), the browser  *)
(* and driver processes it owns, what it has printed, the screenshot file  *)
(* it has written and its exit status.  Everything outside the script (the *)
(* Playwright driver, the target application served at localhost:3001, the *)
(* writability of the screenshot path) is the environment: env is fixed    *)
(* for the target across invocations, pathWritable may differ from one     *)
(* invocation to the next.                                                 *)
(***************************************************************************)
EXTENDS Integers, Sequences, FiniteSets

VARIABLES
    env,           \* the target application and the automation infrastructure
    pathWritable,  \* can /app/verification/studio_a11y.png be written in this run
    pc,            \* position in the script
    raisedAt,      \* the step whose exception is propagating / was caught, or "none"
    caught,        \* number of times the except clause was entered in this run
    calls,         \* the automation calls made in this run, in order, with outcome
    stdout,        \* the lines printed in this run
    exitCode,      \* -1 while the process runs, then its exit status
    driverUp,      \* the Playwright driver started by sync_playwright() is running
    browserOpen,   \* the browser process launched by this run is running
    spawned,       \* browser processes spawned by this run
    terminated,    \* browser processes of this run that have ended
    initScript,    \* the onboarding init script is registered on the page
    storage,       \* localStorage['harmoniq-studio-onboarding'] = 'true' in the loaded page
    files,         \* writes of the screenshot file by this run
    run,           \* number of the current invocation
    prev           \* summary of the previous invocation

vars == <<env, pathWritable, pc, raisedAt, caught, calls, stdout, exitCode,
          driverUp, browserOpen, spawned, terminated, initScript, storage,
          files, run, prev>>

\* Number of invocations of the script that are explored.
MaxRuns == 2

-----------------------------------------------------------------------------
(* The environment *)

\* Outcomes of p.chromium.launch: a running browser, no process at all (the
\* executable is missing), or a process that died before the handshake.
LaunchOutcomes == {"ok", "no_exec", "crashed"}

\* What the Note C element can carry as aria-pressed.
AttrValues == {"false", "true", "mixed", "absent"}

Envs ==
    [ driverOk        : BOOLEAN,
      launch          : LaunchOutcomes,
      contextOk       : BOOLEAN,
      pageOk          : BOOLEAN,
      initScriptOk    : BOOLEAN,
      gotoOk          : BOOLEAN,
      idleOk          : BOOLEAN,
      tipVisible      : BOOLEAN,
      theoryClickable : BOOLEAN,
      noteCVisible    : BOOLEAN,
      ariaPressed     : AttrValues,
      closeOk         : BOOLEAN ]

-----------------------------------------------------------------------------
(* The lines the script prints *)

TipLine == [kind |-> "Verified", msg |-> "Production Tip button has correct ARIA label"]

KeyLine == [kind |-> "Verified", msg |-> "Piano Key (C) exists and has correct attributes"]

SuccessLine == [kind |-> "SUCCESS", msg |-> "Accessibility verification passed."]

FailureLine(e) == [kind |-> "FAILURE", msg |-> e]

-----------------------------------------------------------------------------
(* Control flow *)

BodyScreenshotLast ==
    << "launch", "new_context", "new_page", "add_init_script", "goto", "wait_idle",
       "expect_tip", "print_tip", "click_theory",
       "expect_c_visible", "expect_c_attr", "print_key", "screenshot", "close" >>

BodyInitScriptLate ==
    << "launch", "new_context", "new_page", "goto", "add_init_script", "wait_idle",
       "screenshot", "expect_tip", "print_tip", "click_theory",
       "expect_c_visible", "expect_c_attr", "print_key", "close" >>

BodyPrintBeforeExpect ==
    << "launch", "new_context", "new_page", "add_init_script", "goto", "wait_idle",
       "screenshot", "print_tip", "expect_tip", "click_theory",
       "expect_c_visible", "expect_c_attr", "print_key", "close" >>

\* The statements of the with block, in program order.
Body ==
    << "launch", "new_context", "new_page", "add_init_script", "goto", "wait_idle",
       "screenshot", "expect_tip", "print_tip", "click_theory",
       "expect_c_visible", "expect_c_attr", "print_key", "close" >>

Index(step) == CHOOSE i \in 1..Len(Body) : Body[i] = step

\* Where control goes when a statement of the with block completes.
After(step) ==
    IF Index(step) = Len(Body) THEN "with_exit" ELSE Body[Index(step) + 1]

UnwindResumes(step) == After(step)

\* Where control goes when a statement of the with block raises: out of the
\* block, through the context manager's __exit__.
Unwind(step) == "with_exit"

\* expect(locator).to_be_visible()
ToBeVisible(visible) == visible

ToHaveAttributeNotTrue(actual, expected) == actual # "true"

ToHaveAttributeTrue(actual, expected) == actual = "true"

\* expect(locator).to_have_attribute(name, expected)
ToHaveAttribute(actual, expected) == actual = expected

CapturedBestEffort(writable) == TRUE

\* page.screenshot(path=...) completes when the file can be written and
\* raises otherwise.
Captured(writable) == writable

ExitStatusAlwaysZero(failed) == 0

ExitStatusAlwaysOne(failed) == 1

\* exit(1) in the except clause, the implicit status 0 otherwise.
ExitStatus(failed) == IF failed THEN 1 ELSE 0

StopLeavesBrowser(open) == 0

\* Browser processes ended by stopping the driver: the one still open, if any.
StopKills(open) == IF open THEN 1 ELSE 0

\* An automation call at `step` with outcome `ok`: it is logged, and control
\* moves on or unwinds.
Do(step, ok) ==
    /\ pc = step
    /\ calls' = Append(calls, [step |-> step, ok |-> ok])
    /\ IF ok
         THEN pc' = After(step) /\ UNCHANGED raisedAt
         ELSE pc' = Unwind(step) /\ raisedAt' = step

-----------------------------------------------------------------------------
(* Initial state: an invocation about to run __main__ *)

NoPrev == [exitCode |-> -1, raisedAt |-> "none", pathWritable |-> FALSE, stdout |-> <<>>]

Init ==
    /\ env \in Envs
    /\ pathWritable \in BOOLEAN
    /\ pc = "start"
    /\ raisedAt = "none"
    /\ caught = 0
    /\ calls = <<>>
    /\ stdout = <<>>
    /\ exitCode = -1
    /\ driverUp = FALSE
    /\ browserOpen = FALSE
    /\ spawned = 0
    /\ terminated = 0
    /\ initScript = FALSE
    /\ storage = FALSE
    /\ files = 0
    /\ run = 1
    /\ prev = NoPrev

-----------------------------------------------------------------------------
(* The steps *)

\* with sync_playwright() as p: entering starts the driver; a failure to
\* start raises before the block is entered, so __exit__ does not run.
Start ==
    /\ pc = "start"
    /\ calls' = Append(calls, [step |-> "start", ok |-> env.driverOk])
    /\ IF env.driverOk
         THEN pc' = Body[1] /\ driverUp' = TRUE /\ UNCHANGED raisedAt
         ELSE pc' = "except" /\ raisedAt' = "start" /\ UNCHANGED driverUp
    /\ UNCHANGED <<env, pathWritable, caught, stdout, exitCode, browserOpen,
                   spawned, terminated, initScript, storage, files, run, prev>>

\* browser = p.chromium.launch(headless=True)
Launch ==
    /\ Do("launch", env.launch = "ok")
    /\ spawned' = IF env.launch = "no_exec" THEN spawned ELSE spawned + 1
    /\ terminated' = IF env.launch = "crashed" THEN terminated + 1 ELSE terminated
    /\ browserOpen' = (env.launch = "ok")
    /\ UNCHANGED <<env, pathWritable, caught, stdout, exitCode, driverUp,
                   initScript, storage, files, run, prev>>

\* context = browser.new_context()
NewContext ==
    /\ Do("new_context", env.contextOk)
    /\ UNCHANGED <<env, pathWritable, caught, stdout, exitCode, driverUp, browserOpen,
                   spawned, terminated, initScript, storage, files, run, prev>>

\* page = context.new_page()
NewPage ==
    /\ Do("new_page", env.pageOk)
    /\ UNCHANGED <<env, pathWritable, caught, stdout, exitCode, driverUp, browserOpen,
                   spawned, terminated, initScript, storage, files, run, prev>>

\* page.add_init_script("localStorage.setItem('harmoniq-studio-onboarding', 'true');")
AddInitScript ==
    /\ Do("add_init_script", env.initScriptOk)
    /\ initScript' = env.initScriptOk
    /\ UNCHANGED <<env, pathWritable, caught, stdout, exitCode, driverUp, browserOpen,
                   spawned, terminated, storage, files, run, prev>>

\* page.goto("http://localhost:3001/studio"): the registered init scripts run
\* in the new document before the page's own scripts.
Goto ==
    /\ Do("goto", env.gotoOk)
    /\ storage' = (env.gotoOk /\ initScript)
    /\ UNCHANGED <<env, pathWritable, caught, stdout, exitCode, driverUp, browserOpen,
                   spawned, terminated, initScript, files, run, prev>>

\* page.wait_for_load_state("networkidle")
WaitIdle ==
    /\ Do("wait_idle", env.idleOk)
    /\ UNCHANGED <<env, pathWritable, caught, stdout, exitCode, driverUp, browserOpen,
                   spawned, terminated, initScript, storage, files, run, prev>>

\* page.screenshot(path="/app/verification/studio_a11y.png", full_page=True)
Screenshot ==
    /\ Do("screenshot", Captured(pathWritable))
    /\ files' = IF pathWritable THEN files + 1 ELSE files
    /\ UNCHANGED <<env, pathWritable, caught, stdout, exitCode, driverUp, browserOpen,
                   spawned, terminated, initScript, storage, run, prev>>

\* tip_button = page.get_by_label("Get new production tip")
\* expect(tip_button).to_be_visible()
ExpectTip ==
    /\ Do("expect_tip", ToBeVisible(env.tipVisible))
    /\ UNCHANGED <<env, pathWritable, caught, stdout, exitCode, driverUp, browserOpen,
                   spawned, terminated, initScript, storage, files, run, prev>>

\* print("Verified: Production Tip button has correct ARIA label")
PrintTip ==
    /\ pc = "print_tip"
    /\ stdout' = Append(stdout, TipLine)
    /\ pc' = After("print_tip")
    /\ UNCHANGED <<env, pathWritable, raisedAt, caught, calls, exitCode, driverUp,
                   browserOpen, spawned, terminated, initScript, storage, files,
                   run, prev>>

\* page.get_by_text("Theory").click()
ClickTheory ==
    /\ Do("click_theory", env.theoryClickable)
    /\ UNCHANGED <<env, pathWritable, caught, stdout, exitCode, driverUp, browserOpen,
                   spawned, terminated, initScript, storage, files, run, prev>>

\* c_key = page.get_by_label("Note C", exact=True)
\* expect(c_key).to_be_visible()
ExpectCVisible ==
    /\ Do("expect_c_visible", ToBeVisible(env.noteCVisible))
    /\ UNCHANGED <<env, pathWritable, caught, stdout, exitCode, driverUp, browserOpen,
                   spawned, terminated, initScript, storage, files, run, prev>>

\* expect(c_key).to_have_attribute("aria-pressed", "false")
ExpectCAttr ==
    /\ Do("expect_c_attr", ToHaveAttribute(env.ariaPressed, "false"))
    /\ UNCHANGED <<env, pathWritable, caught, stdout, exitCode, driverUp, browserOpen,
                   spawned, terminated, initScript, storage, files, run, prev>>

\* print("Verified: Piano Key (C) exists and has correct attributes")
PrintKey ==
    /\ pc = "print_key"
    /\ stdout' = Append(stdout, KeyLine)
    /\ pc' = After("print_key")
    /\ UNCHANGED <<env, pathWritable, raisedAt, caught, calls, exitCode, driverUp,
                   browserOpen, spawned, terminated, initScript, storage, files,
                   run, prev>>

\* browser.close()
Close ==
    /\ Do("close", env.closeOk)
    /\ browserOpen' = IF env.closeOk THEN FALSE ELSE browserOpen
    /\ terminated' = IF env.closeOk /\ browserOpen THEN terminated + 1 ELSE terminated
    /\ UNCHANGED <<env, pathWritable, caught, stdout, exitCode, driverUp,
                   spawned, initScript, storage, files, run, prev>>

\* Leaving the with block, normally or by an exception: the context manager
\* stops the driver, which ends the browser it still has open; a pending
\* exception then propagates to the caller.
WithExit ==
    /\ pc = "with_exit"
    /\ calls' = Append(calls, [step |-> "stop", ok |-> TRUE])
    /\ driverUp' = FALSE
    /\ terminated' = terminated + StopKills(browserOpen)
    /\ browserOpen' = (browserOpen /\ StopKills(browserOpen) = 0)
    /\ pc' = IF raisedAt = "none" THEN "print_success" ELSE "except"
    /\ UNCHANGED <<env, pathWritable, raisedAt, caught, stdout, exitCode,
                   spawned, initScript, storage, files, run, prev>>

\* print("SUCCESS: Accessibility verification passed.")
PrintSuccess ==
    /\ pc = "print_success"
    /\ stdout' = Append(stdout, SuccessLine)
    /\ pc' = "exit"
    /\ UNCHANGED <<env, pathWritable, raisedAt, caught, calls, exitCode, driverUp,
                   browserOpen, spawned, terminated, initScript, storage, files,
                   run, prev>>

\* except Exception as e: print(f"FAILURE: {e}")
Except ==
    /\ pc = "except"
    /\ caught' = caught + 1
    /\ stdout' = Append(stdout, FailureLine(raisedAt))
    /\ pc' = "exit"
    /\ UNCHANGED <<env, pathWritable, raisedAt, calls, exitCode, driverUp,
                   browserOpen, spawned, terminated, initScript, storage, files,
                   run, prev>>

\* exit(1) after a caught exception, falling off the end of the script otherwise.
Exit ==
    /\ pc = "exit"
    /\ exitCode' = ExitStatus(caught > 0)
    /\ pc' = "done"
    /\ UNCHANGED <<env, pathWritable, raisedAt, caught, calls, stdout, driverUp,
                   browserOpen, spawned, terminated, initScript, storage, files,
                   run, prev>>

\* The script is invoked again against the same target; only the
\* writability of the screenshot path may have changed.
Reinvoke ==
    /\ pc = "done"
    /\ run < MaxRuns
    /\ run' = run + 1
    /\ prev' = [exitCode |-> exitCode, raisedAt |-> raisedAt,
                pathWritable |-> pathWritable, stdout |-> stdout]
    /\ pathWritable' \in BOOLEAN
    /\ pc' = "start"
    /\ raisedAt' = "none"
    /\ caught' = 0
    /\ calls' = <<>>
    /\ stdout' = <<>>
    /\ exitCode' = -1
    /\ driverUp' = FALSE
    /\ browserOpen' = FALSE
    /\ spawned' = 0
    /\ terminated' = 0
    /\ initScript' = FALSE
    /\ storage' = FALSE
    /\ files' = 0
    /\ UNCHANGED env

Next ==
    \/ Start
    \/ Launch
    \/ NewContext
    \/ NewPage
    \/ AddInitScript
    \/ Goto
    \/ WaitIdle
    \/ Screenshot
    \/ ExpectTip
    \/ PrintTip
    \/ ClickTheory
    \/ ExpectCVisible
    \/ ExpectCAttr
    \/ PrintKey
    \/ Close
    \/ WithExit
    \/ PrintSuccess
    \/ Except
    \/ Exit
    \/ Reinvoke

Spec == Init /\ [][Next]_vars

-----------------------------------------------------------------------------
(* Vocabulary of the properties *)

Done == pc = "done"

Range(s) == {s[i] : i \in 1..Len(s)}

\* The call at `step` was made / was made and completed.
Called(step) == \E i \in 1..Len(calls) : calls[i].step = step

CallOk(step) == \E i \in 1..Len(calls) : calls[i] = [step |-> step, ok |-> TRUE]

IsVerdict(line) == line.kind \in {"SUCCESS", "FAILURE"}

Verdicts == SelectSeq(stdout, IsVerdict)

IsConfirmation(line) == line.kind = "Verified"

Confirmations == SelectSeq(stdout, IsConfirmation)

IsAutomation(c) == c.step \notin {"start", "stop"}

AutoCalls == SelectSeq(calls, IsAutomation)

\* Steps 1-9 of the specification, as the calls of the script.
Steps1to9 ==
    {"launch", "new_context", "new_page", "add_init_script", "goto", "wait_idle",
     "screenshot", "expect_tip", "click_theory", "expect_c_visible", "expect_c_attr"}

\* The target application and the infrastructure are all in order.
EnvAllOk ==
    /\ env.driverOk /\ env.launch = "ok" /\ env.contextOk /\ env.pageOk
    /\ env.initScriptOk /\ env.gotoOk /\ env.idleOk /\ pathWritable
    /\ env.tipVisible /\ env.theoryClickable /\ env.noteCVisible
    /\ env.ariaPressed = "false" /\ env.closeOk

-----------------------------------------------------------------------------
\* C1: against a correctly functioning target, where every step completes,
\* no step raises, the run keeps going until it is done, and it ends with
\* exit status 0 and standard output exactly the production-tip line, the
\* piano-key line and the SUCCESS line, in that order.
C1_CorrectTargetSucceeds ==
    EnvAllOk =>
        /\ raisedAt = "none"
        /\ exitCode # 1
        /\ ~Done => ENABLED Next
        /\ Done => /\ exitCode = 0
                   /\ stdout = <<TipLine, KeyLine, SuccessLine>>

C1_Witness == Done /\ EnvAllOk /\ exitCode = 0 /\ Len(stdout) = 3

\* C2: whichever of steps 1-9 raises, the exception is caught exactly once
\* by the top-level handler, one FAILURE line is printed and is the last
\* line, the SUCCESS line is never printed, and the exit status is 1 whatever
\* the failing step was.
C2_AnyStepFailureExitsOne ==
    raisedAt \in Steps1to9 =>
        /\ caught <= 1
        /\ SuccessLine \notin Range(stdout)
        /\ exitCode # 0
        /\ Done => /\ caught = 1
                   /\ exitCode = 1
                   /\ Verdicts = <<FailureLine(raisedAt)>>
                   /\ stdout[Len(stdout)] = FailureLine(raisedAt)

C2_Witness == Done /\ raisedAt = "click_theory" /\ caught = 1 /\ exitCode = 1

\* C3 as stated: every invocation that gets to the browser launch, failing
\* at any step or not, has spawned exactly one browser process and terminated
\* exactly one when it ends.
C3_ExactlyOneBrowserEveryRun ==
    (Done /\ Called("launch")) => spawned = 1 /\ terminated = 1

\* C3 as amended: at most one browser process is spawned per invocation,
\* every spawned one has ended when the invocation ends (also when an
\* exception is raised between the launch and browser.close()), and exactly
\* one is spawned and terminated whenever the launch completed.
C3_BrowserReleasedOnEveryPath ==
    /\ spawned <= 1
    /\ terminated <= spawned
    /\ browserOpen <=> spawned = terminated + 1
    /\ Done => /\ terminated = spawned
               /\ ~browserOpen
               /\ ~driverUp
               /\ CallOk("launch") => spawned = 1 /\ terminated = 1
               /\ ~Called("launch") => spawned = 0

C3_Witness ==
    Done /\ raisedAt = "goto" /\ spawned = 1 /\ terminated = 1 /\ ~Called("close")

\* C4: in every run in which the tip-button assertion or a Note C assertion
\* fails, the screenshot step has completed before it and the run has written
\* exactly one image file; no run writes the file more than once.
C4_ScreenshotBeforeAssertions ==
    /\ files <= 1
    /\ files = 1 <=> CallOk("screenshot")
    /\ raisedAt \in {"expect_tip", "expect_c_visible", "expect_c_attr"} =>
           CallOk("screenshot") /\ files = 1
    /\ \A a \in {"expect_tip", "expect_c_visible", "expect_c_attr"} :
           Called(a) => CallOk("screenshot")

C4_Witness == Done /\ raisedAt = "expect_c_attr" /\ files = 1

\* C5 as stated: two runs against the same target that differ only in
\* whether the screenshot capture succeeds end with the same exit status and
\* the same verdict.
C5_ScreenshotNeverDecides ==
    (Done /\ run > 1 /\ Called("screenshot") /\ pathWritable # prev.pathWritable) =>
        /\ exitCode = prev.exitCode
        /\ stdout[Len(stdout)].kind = prev.stdout[Len(prev.stdout)].kind

\* The steps after the screenshot all complete against this target.
RestOk ==
    /\ env.tipVisible /\ env.theoryClickable /\ env.noteCVisible
    /\ env.ariaPressed = "false" /\ env.closeOk

\* C5 as amended: of two runs against the same target that differ only in
\* whether the screenshot capture succeeds, the one whose capture fails ends
\* with FAILURE and exit status 1, raised by the screenshot step, and the one
\* whose capture succeeds ends with the verdict of the remaining steps
\* (SUCCESS and 0 exactly when they all complete).
C5_ScreenshotFailureFailsRun ==
    (Done /\ run > 1 /\ Called("screenshot") /\ pathWritable # prev.pathWritable) =>
        LET bad  == IF pathWritable THEN prev ELSE
                        [exitCode |-> exitCode, raisedAt |-> raisedAt,
                         pathWritable |-> pathWritable, stdout |-> stdout]
            good == IF pathWritable THEN
                        [exitCode |-> exitCode, raisedAt |-> raisedAt,
                         pathWritable |-> pathWritable, stdout |-> stdout]
                    ELSE prev
        IN  /\ bad.exitCode = 1
            /\ bad.raisedAt = "screenshot"
            /\ bad.stdout = <<FailureLine("screenshot")>>
            /\ good.raisedAt # "screenshot"
            /\ good.exitCode = 0 <=> RestOk
            /\ good.stdout[Len(good.stdout)] = SuccessLine <=> RestOk

C5_Witness ==
    /\ Done /\ run > 1 /\ ~pathWritable /\ raisedAt = "screenshot"
    /\ exitCode = 1 /\ prev.exitCode = 0 /\ prev.pathWritable

\* C6: if the element labelled "Get new production tip" is absent or
\* invisible, no step-confirmation line and no SUCCESS line is ever printed,
\* "Theory" is never clicked, and the run ends with one FAILURE line and exit
\* status 1.
C6_MissingTipFailsBeforeTheory ==
    ~env.tipVisible =>
        /\ TipLine \notin Range(stdout)
        /\ KeyLine \notin Range(stdout)
        /\ SuccessLine \notin Range(stdout)
        /\ ~Called("click_theory")
        /\ Done => exitCode = 1 /\ stdout = <<FailureLine(raisedAt)>>

C6_Witness == Done /\ ~env.tipVisible /\ raisedAt = "expect_tip" /\ Len(stdout) = 1

\* C7: once "Theory" has been clicked, if Note C is not visible or its
\* aria-pressed is anything but "false" (absent and "true" included), the run
\* ends with exit status 1 on a Note C assertion, having printed the
\* production-tip line and a FAILURE line but neither the piano-key line nor
\* the SUCCESS line.
C7_BadNoteCFails ==
    (CallOk("click_theory") /\ (~env.noteCVisible \/ env.ariaPressed # "false")) =>
        /\ KeyLine \notin Range(stdout)
        /\ SuccessLine \notin Range(stdout)
        /\ TipLine \in Range(stdout)
        /\ Done => /\ exitCode = 1
                   /\ raisedAt \in {"expect_c_visible", "expect_c_attr"}
                   /\ stdout = <<TipLine, FailureLine(raisedAt)>>

C7_Witness ==
    /\ Done /\ env.noteCVisible /\ env.ariaPressed = "absent"
    /\ raisedAt = "expect_c_attr" /\ exitCode = 1

\* The order of the automation steps the specification gives.
AutomationOrder ==
    << "launch", "new_context", "new_page", "add_init_script", "goto", "wait_idle",
       "screenshot", "expect_tip", "click_theory", "expect_c_visible",
       "expect_c_attr", "close" >>

\* C8: the automation steps are made in the one fixed order, each at most
\* once and each only after the previous one completed; releasing the driver
\* and browser comes last and happens once; the init script is registered
\* before the navigation starts (so the loaded page has the onboarding flag),
\* and no assertion runs before the network-idle wait has completed.
C8_FixedStepOrder ==
    /\ Len(AutoCalls) <= Len(AutomationOrder)
    /\ \A i \in 1..Len(AutoCalls) : AutoCalls[i].step = AutomationOrder[i]
    /\ \A i \in 1..Len(AutoCalls) - 1 : AutoCalls[i].ok
    /\ \A i \in 1..Len(calls) : calls[i].step = "stop" => i = Len(calls)
    /\ \A i \in 1..Len(calls) : calls[i].step = "start" => i = 1
    /\ Called("goto") => CallOk("add_init_script") /\ initScript
    /\ CallOk("goto") => storage
    /\ \A a \in {"expect_tip", "expect_c_visible", "expect_c_attr"} :
           Called(a) => CallOk("wait_idle")

C8_Witness == Done /\ Len(AutoCalls) = Len(AutomationOrder) /\ storage /\ ~browserOpen

\* C9: once a step has raised, no automation step is made in that run, no
\* file is written and no browser is spawned; all that follows is the release
\* of the driver and browser, one FAILURE line and the exit with status 1.
C9_NoRetryAfterFailure ==
    [][ (raisedAt # "none" /\ run' = run) =>
            /\ AutoCalls' = AutoCalls
            /\ raisedAt' = raisedAt
            /\ files' = files
            /\ spawned' = spawned
            /\ initScript' = initScript /\ storage' = storage
            /\ stdout' = stdout \/ stdout' = Append(stdout, FailureLine(raisedAt))
            /\ exitCode' \in {-1, 1}
            /\ pc' \in {"with_exit", "except", "exit", "done"} ]_vars

C9_Witness ==
    /\ Done /\ raisedAt = "wait_idle" /\ calls[Len(calls)].step = "stop"
    /\ ~Called("screenshot")

\* C10: the process has an exit status exactly when it is done; every
\* finished run has printed exactly one verdict line, as its last line, with
\* exit status 0 exactly for SUCCESS and 1 exactly for FAILURE; the
\* step-confirmation lines printed are always a prefix of (production-tip,
\* piano-key), and SUCCESS is only printed after both.
C10_OneVerdictLast ==
    /\ Len(Verdicts) <= 1
    /\ Confirmations \in {<<>>, <<TipLine>>, <<TipLine, KeyLine>>}
    /\ SuccessLine \in Range(stdout) => Confirmations = <<TipLine, KeyLine>>
    /\ Len(Verdicts) = 1 => stdout = Confirmations \o Verdicts
    /\ Done <=> exitCode # -1
    /\ Done => /\ Len(Verdicts) = 1
               /\ exitCode \in {0, 1}
               /\ exitCode = 0 <=> Verdicts[1].kind = "SUCCESS"
               /\ exitCode = 1 <=> Verdicts[1].kind = "FAILURE"

C10_Witness == Done /\ stdout = <<TipLine, KeyLine, FailureLine("close")>> /\ exitCode = 1

====
